---------------------------- MODULE Spec2Model ----------------------------
(***************************************************************************)
(* A model of src/src/tool.ts: the regular-expression scans that the       *)
(* MATLAB editor plugin runs over a document's text.                       *)
(*                                                                         *)
(* A JavaScript string is modelled as a sequence of one-character strings. *)
(* Indices in results are JavaScript's (0-based); At(s, i) reads s[i].     *)
(* Every regular expression of the source is translated into an operator   *)
(* that returns what RegExp.prototype.exec returns for it: the leftmost    *)
(* match at or after lastIndex, with greedy quantifiers.                   *)
(***************************************************************************)
EXTENDS Integers, Sequences, FiniteSets, TLC

VARIABLES
  fileName,   \* the fileName argument (a string)
  content,    \* the content argument: the document's text
  word,       \* the identifier argument (word / name / structName)
  readable,   \* the file system: the directories fs.readdirSync can list
  out         \* what the last call returned (or threw)

vars == <<fileName, content, word, readable, out>>

----------------------------------------------------------------------------
(* Characters and JavaScript's string primitives *)

LF == "\n"
DQ == "\""
SQ == "'"

Digits == {"0", "1", "2", "3", "4", "5", "6", "7", "8", "9"}

Letters ==
  {"a", "b", "c", "d", "e", "f", "g", "h", "i", "j", "k", "l", "m",
   "n", "o", "p", "q", "r", "s", "t", "u", "v", "w", "x", "y", "z",
   "A", "B", "C", "D", "E", "F", "G", "H", "I", "J", "K", "L", "M",
   "N", "O", "P", "Q", "R", "S", "T", "U", "V", "W", "X", "Y", "Z"}

\* \w
WordChars == Letters \cup Digits \cup {"_"}

\* \s (the members that the inputs use)
SpaceChars == {" ", "\t", "\r", LF}

Min(S) == CHOOSE x \in S : \A y \in S : x <= y

Max(S) == CHOOSE x \in S : \A y \in S : x >= y

At(s, i) == s[i + 1]

\* s.slice(a, b) for 0 <= a <= b <= s.length
slice(s, a, b) == SubSeq(s, a + 1, b)

\* s.indexOf(lit) !== -1, and the literal part of a regular expression at i
startsWithAt(s, lit, i) ==
  /\ i >= 0
  /\ i + Len(lit) <= Len(s)
  /\ \A k \in 1..Len(lit) : s[i + k] = lit[k]

indexOf(s, lit) ==
  LET hits == {i \in 0..Len(s) : startsWithAt(s, lit, i)}
  IN  IF hits = {} THEN -1 ELSE Min(hits)

includes(s, c) == \E k \in 1..Len(s) : s[k] = c

isWordAt(s, i) == i >= 0 /\ i < Len(s) /\ At(s, i) \in WordChars

isSpaceAt(s, i) == i >= 0 /\ i < Len(s) /\ At(s, i) \in SpaceChars

\* \b at index i: exactly one of s[i-1], s[i] is a word character
wordBoundary(s, i) == isWordAt(s, i - 1) # isWordAt(s, i)

\* ^ with the m flag
lineStart(s, i) == i = 0 \/ (i > 0 /\ i <= Len(s) /\ At(s, i - 1) = LF)

RECURSIVE splitFrom(_, _, _)
splitFrom(s, sep, from) ==
  LET hits == {i \in from..(Len(s) - 1) : At(s, i) = sep}
  IN  IF hits = {}
        THEN <<slice(s, from, Len(s))>>
        ELSE <<slice(s, from, Min(hits))>> \o splitFrom(s, sep, Min(hits) + 1)

\* s.split(sep) for a one-character separator
split(s, sep) == splitFrom(s, sep, 0)

RECURSIVE concat(_)
concat(ss) == IF ss = <<>> THEN <<>> ELSE Head(ss) \o concat(Tail(ss))

RECURSIVE join(_, _)
join(ss, sep) ==
  IF ss = <<>> THEN <<>>
  ELSE IF Len(ss) = 1 THEN Head(ss)
  ELSE Head(ss) \o <<sep>> \o join(Tail(ss), sep)

\* names.filter((v, i) => names.indexOf(v) === i)
RECURSIVE uniqueFrom(_, _)
uniqueFrom(names, i) ==
  IF i > Len(names) THEN <<>>
  ELSE (IF \E j \in 1..(i - 1) : names[j] = names[i] THEN <<>> ELSE <<names[i]>>)
       \o uniqueFrom(names, i + 1)

unique(names) == uniqueFrom(names, 1)

Range(f) == {f[k] : k \in DOMAIN f}

NoDuplicates(f) == \A i, j \in DOMAIN f : f[i] = f[j] => i = j

\* the strings of at most n pieces drawn from S, concatenated
RECURSIVE Pieces(_, _)
Pieces(S, n) ==
  IF n = 0 THEN {<<>>}
  ELSE LET shorter == Pieces(S, n - 1)
       IN  shorter \cup {p \o t : p \in S, t \in shorter}

\* Identifier: [A-Za-z_][A-Za-z0-9_]*
IsIdentifier(v) ==
  /\ Len(v) >= 1
  /\ v[1] \in Letters \cup {"_"}
  /\ \A k \in 1..Len(v) : v[k] \in WordChars

NotCalled == [op |-> "none"]

\* null, and a thrown error
Null == [null |-> TRUE]

----------------------------------------------------------------------------
(* getRangesByName (OccurrenceFinder) *)

MaxLenRanges == 6

\* new RegExp(`\\b${name}\\b`, "g").exec(v) from lastIndex: the index of the
\* leftmost match, or -1 for null
rangesRegexNoEndBoundary(v, name, lastIndex) ==
  LET hits == {p \in lastIndex..Len(v) :
                 wordBoundary(v, p) /\ startsWithAt(v, name, p)}
  IN  IF hits = {} THEN -1 ELSE Min(hits)

rangesRegexExec(v, name, lastIndex) ==
  LET hits == {p \in lastIndex..Len(v) :
                 /\ wordBoundary(v, p)
                 /\ startsWithAt(v, name, p)
                 /\ wordBoundary(v, p + Len(name))}
  IN  IF hits = {} THEN -1 ELSE Min(hits)

\* the while loop over one line v of index i; exec leaves lastIndex at the
\* match's end, and at 0 when it returns null (so the next line starts at 0)
RECURSIVE rangesLoop(_, _, _, _)
rangesLoop(v, name, i, lastIndex) ==
  LET index == rangesRegexExec(v, name, lastIndex)
      end   == index + Len(name)
  IN  IF index = -1 THEN <<>>
      ELSE <<[row |-> i, column |-> index]>>
           \o rangesLoop(v, name, i, IF index = end THEN end + 1 ELSE end)

getRangesByName(c, name) ==
  LET lines == split(c, LF)
  IN  concat([i \in 1..Len(lines) |-> rangesLoop(lines[i], name, i - 1, 0)])

RangesAlphabet == {<<"x">>, <<"1">>, <<" ">>, <<"+">>, <<LF>>}

RangesNames == {<<"x">>, <<"x", "x">>, <<"x", "1">>}

InitOccurrenceFinder ==
  /\ fileName = <<>>
  /\ content \in Pieces(RangesAlphabet, MaxLenRanges)
  /\ word \in RangesNames
  /\ readable = {}
  /\ out = NotCalled

CallGetRangesByName ==
  /\ out = NotCalled
  /\ out' = [op |-> "getRangesByName", val |-> getRangesByName(content, word)]
  /\ UNCHANGED <<fileName, content, word, readable>>

NextOccurrenceFinder == CallGetRangesByName

SpecOccurrenceFinder == InitOccurrenceFinder /\ [][NextOccurrenceFinder]_vars

\* the whole-word occurrences of name in c, by offset into c: name stands at
\* the offset and the characters on both sides are not identifier characters
WholeWordOffsets(c, name) ==
  {p \in 0..Len(c) :
     /\ startsWithAt(c, name, p)
     /\ ~isWordAt(c, p - 1)
     /\ ~isWordAt(c, p + Len(name))}

LinesBefore(c, p) == Cardinality({k \in 0..(p - 1) : At(c, k) = LF})

\* the offset at which the line holding offset p starts
LineStartOf(c, p) ==
  LET nl == {k \in 0..(p - 1) : At(c, k) = LF}
  IN  IF nl = {} THEN 0 ELSE Max(nl) + 1

PositionOf(c, p) == [row |-> LinesBefore(c, p), column |-> p - LineStartOf(c, p)]

PositionBefore(a, b) ==
  a.row < b.row \/ (a.row = b.row /\ a.column < b.column)

\* C2: getRangesByName returns exactly the positions of the whole-word
\* occurrences of name in content, one per occurrence, ordered by row and
\* then by column; an occurrence inside a longer identifier is not reported.
C2_RangesAreWholeWordOccurrences ==
  out.op = "getRangesByName" =>
    /\ Range(out.val) = {PositionOf(content, p) : p \in WholeWordOffsets(content, word)}
    /\ Len(out.val) = Cardinality(WholeWordOffsets(content, word))
    /\ \A k \in 1..(Len(out.val) - 1) : PositionBefore(out.val[k], out.val[k + 1])

\* the spec's example shape: occurrences on two rows, two of them on one row,
\* and the name also inside a longer identifier that is not reported
C2_Witness ==
  /\ out.op = "getRangesByName"
  /\ word = <<"x">>
  /\ content = <<"x", LF, "x", "x", " ", "x">>
  /\ out.val = <<[row |-> 0, column |-> 0], [row |-> 1, column |-> 3]>>

----------------------------------------------------------------------------
(* getRowCol (PositionLocator) *)

MaxFragsRowCol == 5

FUNCTION_PART == <<"f", "u", "n", "c", "t", "i", "o", "n", " ">>

\* content.match(new RegExp(`\\b${word}\\s*=`, "m")): the index of the
\* leftmost match, or -1 for null
bodyRegexNoBoundary(c, w) ==
  LET hits == {p \in 0..Len(c) :
                 /\ startsWithAt(c, w, p)
                 /\ \E k \in 0..Len(c) :
                      /\ \A j \in 0..(k - 1) : isSpaceAt(c, p + Len(w) + j)
                      /\ startsWithAt(c, <<"=">>, p + Len(w) + k)}
  IN  IF hits = {} THEN -1 ELSE Min(hits)

bodyRegexMatch(c, w) ==
  LET hits == {p \in 0..Len(c) :
                 /\ wordBoundary(c, p)
                 /\ startsWithAt(c, w, p)
                 /\ \E k \in 0..Len(c) :
                      /\ \A j \in 0..(k - 1) : isSpaceAt(c, p + Len(w) + j)
                      /\ startsWithAt(c, <<"=">>, p + Len(w) + k)}
  IN  IF hits = {} THEN -1 ELSE Min(hits)

\* functionLine.match(new RegExp(`\\b${word}\\b`)): the index of the leftmost
\* match, or -1 for null
regSingleMatch(functionLine, w) ==
  LET hits == {p \in 0..Len(functionLine) :
                 /\ wordBoundary(functionLine, p)
                 /\ startsWithAt(functionLine, w, p)
                 /\ wordBoundary(functionLine, p + Len(w))}
  IN  IF hits = {} THEN -1 ELSE Min(hits)

\* the for loop of case 2 without its break: every function line is tried
RECURSIVE functionLoopNoBreak(_, _, _)
functionLoopNoBreak(arr, w, i) ==
  IF i >= Len(arr) THEN Null
  ELSE IF indexOf(arr[i + 1], FUNCTION_PART) # -1
            /\ regSingleMatch(arr[i + 1], w) > 0
         THEN [row |-> i, col |-> regSingleMatch(arr[i + 1], w)]
         ELSE functionLoopNoBreak(arr, w, i + 1)

\* the for loop of case 2, from line i: the first line that contains
\* FUNCTION_PART decides (resSingle.index is falsy when it is 0)
RECURSIVE functionLoop(_, _, _)
functionLoop(arr, w, i) ==
  IF i >= Len(arr) THEN Null
  ELSE IF indexOf(arr[i + 1], FUNCTION_PART) # -1
         THEN LET index == regSingleMatch(arr[i + 1], w)
              IN  IF index # -1 /\ index # 0
                    THEN [row |-> i, col |-> index]
                    ELSE Null
         ELSE functionLoop(arr, w, i + 1)

getRowCol(c, w) ==
  LET index == bodyRegexMatch(c, w)
  IN  IF index # -1
        THEN LET rows == split(slice(c, 0, index), LF)
                 row  == Len(rows) - 1
             IN  [row |-> row, col |-> Len(rows[row + 1])]
        ELSE IF indexOf(c, FUNCTION_PART) # -1
               THEN functionLoop(split(c, LF), w, 0)
               ELSE Null

RowColFragments == {FUNCTION_PART, <<"f">>, <<"x">>, <<" ">>, <<"=">>, <<LF>>}

RowColWords == {<<"f">>, <<"x">>}

InitPositionLocator ==
  /\ fileName = <<>>
  /\ content \in Pieces(RowColFragments, MaxFragsRowCol)
  /\ word \in RowColWords
  /\ readable = {}
  /\ out = NotCalled

CallGetRowCol ==
  /\ out = NotCalled
  /\ out' = [op |-> "getRowCol", val |-> getRowCol(content, word)]
  /\ UNCHANGED <<fileName, content, word, readable>>

NextPositionLocator == CallGetRowCol

SpecPositionLocator == InitPositionLocator /\ [][NextPositionLocator]_vars

\* the first offset at or after i that holds no whitespace (Len(c) at the end)
SkipSpaces(c, i) == Min({k \in i..Len(c) : ~isSpaceAt(c, k)})

\* the offsets of the whole-word occurrences of w that optional whitespace
\* and then '=' follow
AssignmentOffsets(c, w) ==
  {p \in WholeWordOffsets(c, w) :
     LET q == SkipSpaces(c, p + Len(w))
     IN  q < Len(c) /\ At(c, q) = "="}

\* the offset one past the end of the line that holds offset p
LineEndOf(c, p) == Min({k \in p..Len(c) : k = Len(c) \/ At(c, k) = LF})

\* the columns of the whole-word occurrences of w on the line that holds
\* offset p
WordColumnsOnLine(c, w, p) ==
  {q - LineStartOf(c, p) :
     q \in {r \in WholeWordOffsets(c, w) :
              r >= LineStartOf(c, p) /\ r + Len(w) <= LineEndOf(c, p)}}

\* C7: when content holds a whole-word occurrence of word followed by
\* optional whitespace and '=', getRowCol returns the position of the first
\* such occurrence (row = the lines before it, col = the length of its line
\* up to it), whatever a function-declaration line holds.
C7_PassAFirstAssignment ==
  (out.op = "getRowCol" /\ AssignmentOffsets(content, word) # {}) =>
    LET p == Min(AssignmentOffsets(content, word))
    IN  out.val = [row |-> LinesBefore(content, p),
                   col |-> p - LineStartOf(content, p)]

\* pass A answers although the first function line holds the word at another,
\* non-zero column: pass B alone would have answered differently
C7_Witness ==
  /\ out.op = "getRowCol"
  /\ AssignmentOffsets(content, word) # {}
  /\ indexOf(content, FUNCTION_PART) # -1
  /\ LET m == indexOf(content, FUNCTION_PART)
         p == Min(AssignmentOffsets(content, word))
         cols == WordColumnsOnLine(content, word, m)
     IN  /\ cols # {}
         /\ Min(cols) > 0
         /\ [row |-> LinesBefore(content, m), col |-> Min(cols)] # out.val
         /\ out.val = [row |-> LinesBefore(content, p),
                       col |-> p - LineStartOf(content, p)]
         /\ out.val.col > 0

\* C8 as stated: when pass A finds nothing and content holds "function ",
\* the first line holding it decides: if that line has a whole-word match of
\* word at a non-zero index c, the result is {row: that line's index, col: c}
\* (for one such c), and otherwise the result is null.  Without the marker
\* the result is null.
C8_AnyNonZeroMatch ==
  (out.op = "getRowCol" /\ AssignmentOffsets(content, word) = {}) =>
    LET m == indexOf(content, FUNCTION_PART)
    IN  IF m = -1 THEN out.val = Null
        ELSE LET nonZero == WordColumnsOnLine(content, word, m) \ {0}
             IN  IF nonZero # {}
                   THEN \E c \in nonZero :
                          out.val = [row |-> LinesBefore(content, m), col |-> c]
                   ELSE out.val = Null

\* C8 (amended): when pass A finds nothing and content holds "function ", the
\* first line holding it decides: getRowCol returns {row: that line's index,
\* col: c} if the line's leftmost whole-word match of word is at a non-zero
\* index c, and null otherwise (also when the word stands at index 0 and again
\* later on the line); no later line is examined.  Without the marker the
\* result is null.
C8_PassBFirstFunctionLine ==
  (out.op = "getRowCol" /\ AssignmentOffsets(content, word) = {}) =>
    LET m == indexOf(content, FUNCTION_PART)
    IN  IF m = -1 THEN out.val = Null
        ELSE LET cols == WordColumnsOnLine(content, word, m)
             IN  IF cols # {} /\ Min(cols) # 0
                   THEN out.val = [row |-> LinesBefore(content, m), col |-> Min(cols)]
                   ELSE out.val = Null

\* pass B answers from a function line that is not the first line of content
C8_Witness ==
  /\ out.op = "getRowCol"
  /\ AssignmentOffsets(content, word) = {}
  /\ indexOf(content, FUNCTION_PART) > 0
  /\ out.val # Null
  /\ out.val.row > 0
  /\ out.val = [row |-> LinesBefore(content, indexOf(content, FUNCTION_PART)),
                col |-> Min(WordColumnsOnLine(content, word,
                                              indexOf(content, FUNCTION_PART)))]

----------------------------------------------------------------------------
(* getCurrentFileVariables (Tokenizer) *)

MaxFragsVariables == 3

\* /\b([\w_]+)\b/gm .exec(content) from lastIndex: <<index, end>> of the
\* leftmost match, or <<-1, -1>> for null.  A match starts at a \b before a
\* word character; the greedy [\w_]+ takes the whole run of word characters,
\* where the closing \b holds (inside the run it does not, so backtracking
\* finds nothing shorter)
variablesRegexExec(c, lastIndex) ==
  LET hits == {p \in lastIndex..Len(c) : wordBoundary(c, p) /\ isWordAt(c, p)}
  IN  IF hits = {} THEN <<-1, -1>>
      ELSE LET p == Min(hits)
           IN  <<p, Min({e \in (p + 1)..Len(c) : ~isWordAt(c, e)})>>

\* the while loop: every match adds m[0] and m[1] (the same text) to the set
\* res, which keeps insertion order
RECURSIVE variablesLoop(_, _)
variablesLoop(c, lastIndex) ==
  LET m == variablesRegexExec(c, lastIndex)
  IN  IF m[1] = -1 THEN <<>>
      ELSE <<slice(c, m[1], m[2]), slice(c, m[1], m[2])>>
           \o variablesLoop(c, IF m[1] = m[2] THEN m[2] + 1 ELSE m[2])

keywordSet ==
  {<<"b", "r", "e", "a", "k">>,
   <<"c", "a", "s", "e">>,
   <<"c", "a", "t", "c", "h">>,
   <<"c", "l", "a", "s", "s", "d", "e", "f">>,
   <<"c", "o", "n", "t", "i", "n", "u", "e">>,
   <<"e", "l", "s", "e">>,
   <<"e", "l", "s", "e", "i", "f">>,
   <<"e", "n", "d">>,
   <<"f", "o", "r">>,
   <<"f", "u", "n", "c", "t", "i", "o", "n">>,
   <<"g", "l", "o", "b", "a", "l">>,
   <<"i", "f">>,
   <<"o", "t", "h", "e", "r", "w", "i", "s", "e">>,
   <<"p", "a", "r", "f", "o", "r">>,
   <<"p", "e", "r", "s", "i", "s", "t", "e", "n", "t">>,
   <<"r", "e", "t", "u", "r", "n">>,
   <<"s", "p", "m", "d">>,
   <<"s", "w", "i", "t", "c", "h">>,
   <<"t", "r", "y">>,
   <<"w", "h", "i", "l", "e">>}

\* /[^0-9]\S+/.test(v): somewhere in v a character that is no digit, followed
\* by at least one character that is no whitespace
nonDigitThenNonSpace(v) ==
  \E i \in 0..(Len(v) - 2) : At(v, i) \notin Digits /\ ~isSpaceAt(v, i + 1)

\* the filter without its keyword test
keepVariableAnyKeyword(v) == nonDigitThenNonSpace(v)

\* the predicate of the final filter
keepVariable(v) == nonDigitThenNonSpace(v) /\ v \notin keywordSet

getCurrentFileVariables(c) ==
  SelectSeq(unique(variablesLoop(c, 0)), keepVariable)

VariablesFragments == keywordSet \cup {<<"x">>, <<"1">>, <<"x", "_">>, <<" ">>}

InitTokenizer ==
  /\ fileName = <<>>
  /\ content \in Pieces(VariablesFragments, MaxFragsVariables)
  /\ word = <<>>
  /\ readable = {}
  /\ out = NotCalled

CallGetCurrentFileVariables ==
  /\ out = NotCalled
  /\ out' = [op |-> "getCurrentFileVariables", val |-> getCurrentFileVariables(content)]
  /\ UNCHANGED <<fileName, content, word, readable>>

NextTokenizer == CallGetCurrentFileVariables

SpecTokenizer == InitTokenizer /\ [][NextTokenizer]_vars

\* the maximal runs of identifier characters of c
MaximalRuns(c) ==
  {slice(c, a, b) : <<a, b>> \in
     {r \in (0..Len(c)) \X (0..Len(c)) :
        /\ r[1] < r[2]
        /\ \A k \in r[1]..(r[2] - 1) : isWordAt(c, k)
        /\ ~isWordAt(c, r[1] - 1)
        /\ ~isWordAt(c, r[2])}}

\* C4: getCurrentFileVariables returns, without duplicates, exactly the
\* maximal identifier runs of content that are Identifiers (of any length
\* >= 1) and no reserved keywords; no entry starts with a digit.
C4_AllIdentifiersReturned ==
  out.op = "getCurrentFileVariables" =>
    /\ NoDuplicates(out.val)
    /\ Range(out.val) =
         {t \in MaximalRuns(content) : IsIdentifier(t) /\ t \notin keywordSet}
    /\ \A k \in 1..Len(out.val) : out.val[k][1] \notin Digits

\* C5: getCurrentFileVariables never returns one of the 20 reserved keywords,
\* also when the keyword stands in content as a token of its own.
C5_NoKeywordReturned ==
  out.op = "getCurrentFileVariables" =>
    \A k \in 1..Len(out.val) : out.val[k] \notin keywordSet

\* content holds a keyword as a token of its own beside another token, and
\* only the other token is returned
C5_Witness ==
  /\ out.op = "getCurrentFileVariables"
  /\ MaximalRuns(content) \cap keywordSet # {}
  /\ out.val # <<>>
  /\ Range(out.val) = MaximalRuns(content) \ keywordSet

----------------------------------------------------------------------------
(* matchAddPath (PathResolver) *)

MaxLinesAddPath == 3

ADDPATH_OPEN == <<"a", "d", "d", "p", "a", "t", "h", "(">>

Quotes == {DQ, SQ}

\* the ends e of a capture (\S+) that starts at q and that ["']\) follows
addPathCaptureEnds(str, q) ==
  {e \in (q + 1)..Len(str) :
     /\ \A k \in q..(e - 1) : k < Len(str) /\ ~isSpaceAt(str, k)
     /\ e + 1 < Len(str)
     /\ At(str, e) \in Quotes
     /\ At(str, e + 1) = ")"}

\* /^(?!\%)addpath\(["'](\S+)["']\)/gm .exec(str) from lastIndex: the
\* leftmost match as [index, group1, end], or Null
addPathRegexExec(str, lastIndex) ==
  LET q(p) == p + Len(ADDPATH_OPEN) + 1
      hits == {p \in lastIndex..Len(str) :
                 /\ lineStart(str, p)
                 /\ ~startsWithAt(str, <<"%">>, p)
                 /\ startsWithAt(str, ADDPATH_OPEN, p)
                 /\ q(p) - 1 < Len(str)
                 /\ At(str, q(p) - 1) \in Quotes
                 /\ addPathCaptureEnds(str, q(p)) # {}}
  IN  IF hits = {} THEN Null
      ELSE LET p == Min(hits)
               e == Max(addPathCaptureEnds(str, q(p)))   \* greedy
           IN  [index |-> p, group1 |-> slice(str, q(p), e), end |-> e + 2]

\* the while loop: m.forEach runs once per element of m (the match and its
\* one group), and each run pushes m[1]
RECURSIVE matchAddPathLoop(_, _)
matchAddPathLoop(str, lastIndex) ==
  LET m == addPathRegexExec(str, lastIndex)
  IN  IF m = Null THEN <<>>
      ELSE <<m.group1, m.group1>>
           \o matchAddPathLoop(str, IF m.index = m.end THEN m.end + 1 ELSE m.end)

matchAddPath(str) == matchAddPathLoop(str, 0)

AddPathLines ==
  {<<"a", "d", "d", "p", "a", "t", "h", "(", SQ, "l", "i", "b", SQ, ")">>,
   <<"a", "d", "d", "p", "a", "t", "h", "(", DQ, "l", "i", "b", DQ, ")">>,
   <<"%", "a", "d", "d", "p", "a", "t", "h", "(", SQ, "l", "i", "b", SQ, ")">>,
   <<"a", "d", "d", "p", "a", "t", "h", "(", SQ, "/", "a", "b", "s", SQ, ")", ";">>,
   <<" ", "a", "d", "d", "p", "a", "t", "h", "(", SQ, "l", "i", "b", SQ, ")">>,
   <<"x", " ", "=", " ", "1">>}

\* the texts of at most n lines drawn from L
LinesOf(L, n) == UNION {{join(ls, LF) : ls \in [1..k -> L]} : k \in 0..n}

InitPathResolver ==
  /\ fileName = <<>>
  /\ content \in LinesOf(AddPathLines, MaxLinesAddPath)
  /\ word = <<>>
  /\ readable = {}
  /\ out = NotCalled

CallMatchAddPath ==
  /\ out = NotCalled
  /\ out' = [op |-> "matchAddPath", val |-> matchAddPath(content)]
  /\ UNCHANGED <<fileName, content, word, readable>>

NextPathResolver == CallMatchAddPath

SpecPathResolver == InitPathResolver /\ [][NextPathResolver]_vars

\* the offset of the quote that closes the literal opened at the start of
\* line (-1 if none)
ClosingQuote(line) ==
  LET qs == {e \in (Len(ADDPATH_OPEN) + 2)..(Len(line) - 1) : At(line, e) \in Quotes}
  IN  IF qs = {} THEN -1 ELSE Min(qs)

\* a directive line starts with addpath("<path>") or addpath('<path>'); a
\* comment line starts with % and is none
IsDirectiveLine(line) ==
  /\ startsWithAt(line, ADDPATH_OPEN, 0)
  /\ Len(line) > Len(ADDPATH_OPEN)
  /\ line[Len(ADDPATH_OPEN) + 1] \in Quotes
  /\ ClosingQuote(line) # -1
  /\ startsWithAt(line, <<")">>, ClosingQuote(line) + 1)

\* the text between the quotes of a directive line
DirectivePath(line) == slice(line, Len(ADDPATH_OPEN) + 1, ClosingQuote(line))

RECURSIVE DirectivePaths(_)
DirectivePaths(lines) ==
  IF lines = <<>> THEN <<>>
  ELSE (IF IsDirectiveLine(Head(lines)) THEN <<DirectivePath(Head(lines))>> ELSE <<>>)
       \o DirectivePaths(Tail(lines))

\* C6: matchAddPath returns exactly the quoted path literals of the directive
\* lines of content, one entry per directive, in order of appearance; a line
\* starting with % contributes no entry.
C6_OneEntryPerDirective ==
  out.op = "matchAddPath" => out.val = DirectivePaths(split(content, LF))

----------------------------------------------------------------------------
(* getCommands (CommandLister) *)

MaxLinesCommands == 2

\* path.dirname(fileName) for a POSIX path
dirname(fn) ==
  LET slashes == {i \in 0..(Len(fn) - 1) : At(fn, i) = "/"}
  IN  IF slashes = {} THEN <<".">>
      ELSE IF Max(slashes) = 0 THEN <<"/">>
      ELSE slice(fn, 0, Max(slashes))

\* path.isAbsolute(v) for a POSIX path
isAbsolute(v) == Len(v) > 0 /\ v[1] = "/"

\* path.join(dirPath, v) for a v without "." or ".." segments
pathJoin(dirPath, v) == dirPath \o <<"/">> \o v

\* v.endsWith(".m")
endsWithDotM(v) == Len(v) >= 2 /\ v[Len(v) - 1] = "." /\ v[Len(v)] = "m"

\* the entries fs.readdirSync(v) returns for a directory it can list
DirEntries(v) ==
  CASE v = <<"/", "w">> -> <<<<"m", "a", "i", "n", ".", "m">>, <<"u", "t", "i", "l", ".", "m">>, <<"n", "o", "t", "e", "s", ".", "t", "x", "t">>>>
    [] v = <<"/", "w", "/", "l", "i", "b">> -> <<<<"h", "e", "l", "p", "e", "r", ".", "m">>>>
    [] v = <<"/", "a", "b", "s">> -> <<<<"t", "o", "o", "l", ".", "m">>, <<"u", "t", "i", "l", ".", "m">>>>
    [] OTHER -> <<>>

\* .filter((v) => v.endsWith(".m")).map((v) => v.slice(0, v.length - 2))
mFileNamesOf(entries) ==
  LET kept == SelectSeq(entries, endsWithDotM)
  IN  [k \in 1..Len(kept) |-> slice(kept[k], 0, Len(kept[k]) - 2)]

\* addPaths.forEach: relative paths are joined to dirPath
resolveAddPaths(dirPath, addPaths) ==
  [k \in 1..Len(addPaths) |->
     IF ~isAbsolute(addPaths[k]) THEN pathJoin(dirPath, addPaths[k]) ELSE addPaths[k]]

\* the listing loop with a try/catch around readdirSync: an unlistable
\* directory is skipped
RECURSIVE listDirsSkipping(_, _, _, _)
listDirsSkipping(dirPaths, k, arr, fs) ==
  IF k > Len(dirPaths) THEN [arr |-> arr]
  ELSE IF dirPaths[k] \notin fs
         THEN listDirsSkipping(dirPaths, k + 1, arr, fs)
         ELSE listDirsSkipping(dirPaths, k + 1,
                               arr \o mFileNamesOf(DirEntries(dirPaths[k])), fs)

\* dirPaths.forEach from its k-th element: readdirSync throws for a
\* directory that is not in fs, and nothing here catches it
RECURSIVE listDirs(_, _, _, _)
listDirs(dirPaths, k, arr, fs) ==
  IF k > Len(dirPaths) THEN [arr |-> arr]
  ELSE IF dirPaths[k] \notin fs
         THEN [threw |-> dirPaths[k]]
         ELSE listDirs(dirPaths, k + 1,
                       arr \o mFileNamesOf(DirEntries(dirPaths[k])), fs)

\* the call's outcome: [val |-> the returned list] or [threw |-> the
\* directory whose listing failed]
getCommands(fn, c, fs) ==
  LET dirPath  == dirname(fn)
      dirPaths == <<dirPath>> \o resolveAddPaths(dirPath, matchAddPath(c))
      listed   == listDirs(dirPaths, 1, <<>>, fs)
  IN  IF "threw" \in DOMAIN listed THEN listed
      ELSE [val |-> unique(listed.arr \o getCurrentFileVariables(c))]

CommandsFileNames == {<<"/", "w", "/", "m", "a", "i", "n", ".", "m">>, <<"/", "w", "/", "l", "i", "b", "/", "h", "e", "l", "p", "e", "r", ".", "m">>}

CommandsDirs == {<<"/", "w">>, <<"/", "w", "/", "l", "i", "b">>, <<"/", "a", "b", "s">>, <<"/", "w", "/", "l", "i", "b", "/", "l", "i", "b">>}

CommandsLines ==
  {<<"a", "d", "d", "p", "a", "t", "h", "(", SQ, "l", "i", "b", SQ, ")">>,
   <<"%", "a", "d", "d", "p", "a", "t", "h", "(", SQ, "l", "i", "b", SQ, ")">>,
   <<"a", "d", "d", "p", "a", "t", "h", "(", SQ, "/", "a", "b", "s", SQ, ")", ";">>,
   <<"x", "s", " ", "=", " ", "u", "t", "i", "l">>}

InitCommandLister ==
  /\ fileName \in CommandsFileNames
  /\ content \in LinesOf(CommandsLines, MaxLinesCommands)
  /\ word = <<>>
  /\ readable \in SUBSET CommandsDirs
  /\ out = NotCalled

CallGetCommands ==
  /\ out = NotCalled
  /\ out' = [op |-> "getCommands"] @@ getCommands(fileName, content, readable)
  /\ UNCHANGED <<fileName, content, word, readable>>

NextCommandLister == CallGetCommands

SpecCommandLister == InitCommandLister /\ [][NextCommandLister]_vars

\* the directory part of a path: everything before its last "/"
DirectoryOf(fn) == slice(fn, 0, Max({i \in 0..(Len(fn) - 1) : At(fn, i) = "/"}))

\* the search set: the directory of fileName and every directory an addpath
\* directive of content names, the relative ones taken from that directory
SearchSet(fn, c) ==
  {DirectoryOf(fn)} \cup
  {IF d[1] = "/" THEN d ELSE DirectoryOf(fn) \o <<"/">> \o d :
     d \in Range(DirectivePaths(split(c, LF)))}

\* C10: when the listing of a directory of the search set fails, getCommands
\* throws that error and returns no list, neither one built from the
\* listable directories nor the identifiers of content alone.
C10_ListingFailureIsThrown ==
  (out.op = "getCommands" /\ ~(SearchSet(fileName, content) \subseteq readable)) =>
    /\ "val" \notin DOMAIN out
    /\ "threw" \in DOMAIN out
    /\ out.threw \in SearchSet(fileName, content) \ readable

\* the primary directory is listable and holds .m files, content holds
\* identifiers, and a directory named by an addpath directive is not listable
C10_Witness ==
  /\ out.op = "getCommands"
  /\ DirectoryOf(fileName) \in readable
  /\ mFileNamesOf(DirEntries(DirectoryOf(fileName))) # <<>>
  /\ getCurrentFileVariables(content) # <<>>
  /\ SearchSet(fileName, content) \ readable # {}
  /\ "threw" \in DOMAIN out
  /\ out.threw # DirectoryOf(fileName)

----------------------------------------------------------------------------
(* TextUtils.matchAll: every match of a global regular expression, in order. *)
(* exec[i] is what regex.exec(content) returns with lastIndex = i: a record  *)
(* with the match's index, its end and its groups, or Null.                   *)

RECURSIVE matchAllFrom(_, _)
matchAllFrom(exec, lastIndex) ==
  IF lastIndex \notin DOMAIN exec \/ exec[lastIndex] = Null THEN <<>>
  ELSE LET m == exec[lastIndex]
       IN  <<m>> \o matchAllFrom(exec, IF m.end = m.index THEN m.end + 1 ELSE m.end)

matchAll(exec) == matchAllFrom(exec, 0)

----------------------------------------------------------------------------
(* findMemberNames, getStructNames, getStructCompletions (StructAnalyzer) *)

MaxLenStruct == 4

\* the end of the run of non-whitespace characters that starts at g
nonSpaceRunEnd(c, g) == Min({e \in g..Len(c) : e = Len(c) \/ isSpaceAt(c, e)})

\* new RegExp(`\\s?${structName}\\.(\\S+);?`, 'gm').exec(content) from
\* lastIndex.  The optional \s is taken when it is there; (\S+) is greedy and
\* runs to the next whitespace, so the trailing ;? matches nothing
memberRegexExec(c, structName, lastIndex) ==
  LET lit == structName \o <<".">>
      at(p) == IF isSpaceAt(c, p) THEN p + 1 ELSE p      \* where the name starts
      hits == {p \in lastIndex..Len(c) :
                 /\ startsWithAt(c, lit, at(p))
                 /\ at(p) + Len(lit) < Len(c)
                 /\ ~isSpaceAt(c, at(p) + Len(lit))}
  IN  IF hits = {} THEN Null
      ELSE LET p == Min(hits)
               g == at(p) + Len(lit)
           IN  [index |-> p, end |-> nonSpaceRunEnd(c, g),
                groups |-> <<slice(c, g, nonSpaceRunEnd(c, g))>>]

\* v.replace(ch, ''): the first ch of v is removed
replaceFirst(v, ch) ==
  LET hits == {k \in 1..Len(v) : v[k] = ch}
  IN  IF hits = {} THEN v
      ELSE SubSeq(v, 1, Min(hits) - 1) \o SubSeq(v, Min(hits) + 1, Len(v))

noOpenParen(v) == ~includes(v, "(")

findMemberNames(fn, c, structName) ==
  LET res   == matchAll([i \in 0..Len(c) |-> memberRegexExec(c, structName, i)])
      names == [k \in 1..Len(res) |->
                  replaceFirst(replaceFirst(res[k].groups[1], ";"), ":")]
  IN  unique(SelectSeq(names, noOpenParen))

\* /([a-zA-Z\_][0-9a-zA-Z\_]*)\./gm .exec(content) from lastIndex: a letter
\* or _, the whole run of word characters after it, and a dot
structRegexExec(c, lastIndex) ==
  LET runEnd(p) == Min({e \in (p + 1)..Len(c) : ~isWordAt(c, e)})
      hits == {p \in lastIndex..(Len(c) - 1) :
                 /\ At(c, p) \in Letters \cup {"_"}
                 /\ startsWithAt(c, <<".">>, runEnd(p))}
  IN  IF hits = {} THEN Null
      ELSE LET p == Min(hits)
           IN  [index |-> p, end |-> runEnd(p) + 1,
                groups |-> <<slice(c, p, runEnd(p))>>]

getStructNames(fn, c) ==
  LET res         == matchAll([i \in 0..Len(c) |-> structRegexExec(c, i)])
      structNames == [k \in 1..Len(res) |-> res[k].groups[1]]
      basename    == slice(fn, 0, Len(fn) - 2)
      keep(v)     == v # basename
  IN  SelectSeq(unique(structNames), keep)

getStructCompletions(fn, c) ==
  LET structNames == getStructNames(fn, c)
  IN  [k \in 1..Len(structNames) |->
         [name |-> structNames[k], members |-> findMemberNames(fn, c, structNames[k])]]

StructAlphabet ==
  {<<"s">>, <<"a">>, <<".">>, <<"=">>, <<";">>, <<" ">>, <<"(">>, <<")">>}

StructFileNames == {<<"s", ".", "m">>, <<"a", ".", "m">>, <<"d", "/", "s", ".", "m">>}

StructNames == {<<"s">>, <<"a">>}

InitStructAnalyzer ==
  /\ fileName \in StructFileNames
  /\ content \in Pieces(StructAlphabet, MaxLenStruct)
  /\ word \in StructNames
  /\ readable = {}
  /\ out = NotCalled

CallFindMemberNames ==
  /\ out = NotCalled
  /\ out' = [op |-> "findMemberNames", val |-> findMemberNames(fileName, content, word)]
  /\ UNCHANGED <<fileName, content, word, readable>>

CallGetStructNames ==
  /\ out = NotCalled
  /\ out' = [op |-> "getStructNames", val |-> getStructNames(fileName, content)]
  /\ UNCHANGED <<fileName, content, word, readable>>

CallGetStructCompletions ==
  /\ out = NotCalled
  /\ out' = [op |-> "getStructCompletions", val |-> getStructCompletions(fileName, content)]
  /\ UNCHANGED <<fileName, content, word, readable>>

NextStructAnalyzer ==
  \/ CallFindMemberNames
  \/ CallGetStructNames
  \/ CallGetStructCompletions

SpecStructAnalyzer == InitStructAnalyzer /\ [][NextStructAnalyzer]_vars

\* C1: every member findMemberNames returns is a bare field name, an
\* Identifier; none holds a parenthesis, and none is returned twice.
C1_MembersAreIdentifiers ==
  out.op = "findMemberNames" =>
    /\ \A k \in 1..Len(out.val) :
         /\ IsIdentifier(out.val[k])
         /\ ~includes(out.val[k], "(")
         /\ ~includes(out.val[k], ")")
    /\ NoDuplicates(out.val)

\* the file's own base name: fileName without its directories and without
\* its extension
BaseName(fn) ==
  LET slashes == {i \in 0..(Len(fn) - 1) : At(fn, i) = "/"}
      from    == IF slashes = {} THEN 0 ELSE Max(slashes) + 1
      dots    == {i \in from..(Len(fn) - 1) : At(fn, i) = "."}
  IN  slice(fn, from, IF dots = {} THEN Len(fn) ELSE Max(dots))

\* C3: no name getStructNames returns, and no name of a completion
\* getStructCompletions returns, is the base name of fileName (a file name or
\* a path, without its extension).
C3_BaseNameExcluded ==
  /\ out.op = "getStructNames" =>
       \A k \in 1..Len(out.val) : out.val[k] # BaseName(fileName)
  /\ out.op = "getStructCompletions" =>
       \A k \in 1..Len(out.val) : out.val[k].name # BaseName(fileName)

----------------------------------------------------------------------------
(* getFunctionCall (CallSiteParser) *)

MaxReturns == 2

MaxParams == 2

\* . without the s flag: any character but a line terminator
isDotAt(c, k) == k >= 0 /\ k < Len(c) /\ At(c, k) \notin {LF, "\r"}

\* the first offset at or after i that holds no whitespace: where a greedy
\* \s* stops
skipWhitespace(c, i) == Min({k \in i..Len(c) : ~isSpaceAt(c, k)})

\* the ends of (.*) from g that \) follows
callParamsEnds(c, g) ==
  {e3 \in g..(Len(c) - 1) :
     /\ At(c, e3) = ")"
     /\ \A k \in g..(e3 - 1) : isDotAt(c, k)}

\* the ends of (\S+) from b that \((.*)\) follows
callNameEnds(c, b) ==
  {e2 \in (b + 1)..(Len(c) - 1) :
     /\ At(c, e2) = "("
     /\ \A k \in b..(e2 - 1) : ~isSpaceAt(c, k)
     /\ callParamsEnds(c, e2 + 1) # {}}

\* where (\S+) starts when \]\s*=\s* matches from e1, or -1
callNameStart(c, e1) ==
  LET a == skipWhitespace(c, e1 + 1)
  IN  IF startsWithAt(c, <<"]">>, e1) /\ startsWithAt(c, <<"=">>, a)
        THEN skipWhitespace(c, a + 1)
        ELSE -1

\* the ends of (.+) from p + 1 that the rest of the expression follows
callReturnsEnds(c, p) ==
  {e1 \in (p + 2)..(Len(c) - 1) :
     /\ \A k \in (p + 1)..(e1 - 1) : isDotAt(c, k)
     /\ callNameStart(c, e1) # -1
     /\ callNameEnds(c, callNameStart(c, e1)) # {}}

\* /\[(.+)\]\s*=\s*(\S+)\((.*)\)/g .exec(content) from lastIndex: the
\* leftmost match, every greedy quantifier taking the longest text that lets
\* the rest match, the earlier quantifier first
callRegexExec(c, lastIndex) ==
  LET hits == {p \in lastIndex..(Len(c) - 1) :
                 At(c, p) = "[" /\ callReturnsEnds(c, p) # {}}
  IN  IF hits = {} THEN Null
      ELSE LET p  == Min(hits)
               e1 == Max(callReturnsEnds(c, p))
               b  == callNameStart(c, e1)
               e2 == Max(callNameEnds(c, b))
               e3 == Max(callParamsEnds(c, e2 + 1))
           IN  [index |-> p, end |-> e3 + 1,
                groups |-> <<slice(c, p + 1, e1), slice(c, b, e2), slice(c, e2 + 1, e3)>>]

\* v.replace(/\s/g, '')
isNoSpace(ch) == ch \notin SpaceChars

removeWhitespace(v) == SelectSeq(v, isNoSpace)

getFunctionCall(c) ==
  LET resMultiple == matchAll([i \in 0..Len(c) |-> callRegexExec(c, i)])
  IN  [k \in 1..Len(resMultiple) |->
         [name    |-> resMultiple[k].groups[2],
          returns |-> split(removeWhitespace(resMultiple[k].groups[1]), ","),
          params  |-> split(removeWhitespace(resMultiple[k].groups[3]), ",")]]

ReturnNames == {<<"a">>, <<"b", "1">>}

ParamNames == {<<"x">>, <<"y", "_">>}

CallNames == {<<"f">>, <<"c", "o", "m", "p", "u", "t", "e">>}

Blank == {<<>>, <<" ">>}

\* the whitespace before a comma, after a comma, before '=' and after '='
Spacings == [beforeComma : Blank, afterComma : Blank, beforeEq : Blank, afterEq : Blank]

SeqsOf(S, lo, hi) == UNION {[1..k -> S] : k \in lo..hi}

RECURSIVE commaList(_, _)
commaList(ids, sp) ==
  IF ids = <<>> THEN <<>>
  ELSE IF Len(ids) = 1 THEN Head(ids)
  ELSE Head(ids) \o sp.beforeComma \o <<",">> \o sp.afterComma \o commaList(Tail(ids), sp)

\* the text [r1, ..., rn] = name(p1, ..., pm)
RenderCall(rets, name, params, sp) ==
  <<"[">> \o commaList(rets, sp) \o <<"]">> \o sp.beforeEq \o <<"=">> \o sp.afterEq
  \o name \o <<"(">> \o commaList(params, sp) \o <<")">>

InitCallSiteParser ==
  /\ fileName = <<>>
  /\ content \in {RenderCall(r, n, ps, sp) :
                    r \in SeqsOf(ReturnNames, 1, MaxReturns), n \in CallNames,
                    ps \in SeqsOf(ParamNames, 0, MaxParams), sp \in Spacings}
  /\ word = <<>>
  /\ readable = {}
  /\ out = NotCalled

CallGetFunctionCall ==
  /\ out = NotCalled
  /\ out' = [op |-> "getFunctionCall", val |-> getFunctionCall(content)]
  /\ UNCHANGED <<fileName, content, word, readable>>

NextCallSiteParser == CallGetFunctionCall

SpecCallSiteParser == InitCallSiteParser /\ [][NextCallSiteParser]_vars

\* C9: for content that is one call [r1, ..., rn] = name(p1, ..., pm) with
\* n >= 1, m >= 0 and any whitespace around the commas and the '=',
\* getFunctionCall returns exactly one FunctionCall, with that name, returns
\* r1..rn and params p1..pm.
C9_SingleCallParsed ==
  out.op = "getFunctionCall" =>
    \A r \in SeqsOf(ReturnNames, 1, MaxReturns), n \in CallNames,
       ps \in SeqsOf(ParamNames, 0, MaxParams), sp \in Spacings :
      content = RenderCall(r, n, ps, sp) =>
        out.val = <<[name |-> n, returns |-> r, params |-> ps]>>

----------------------------------------------------------------------------
(* The library as a whole: any exported function may be called on the        *)
(* arguments at hand.  The specifications above are its restrictions to one  *)
(* component and that component's inputs.                                     *)

Init ==
  \/ InitPathResolver
  \/ InitTokenizer
  \/ InitCommandLister
  \/ InitPositionLocator
  \/ InitOccurrenceFinder
  \/ InitStructAnalyzer
  \/ InitCallSiteParser

Next ==
  \/ CallMatchAddPath
  \/ CallGetCurrentFileVariables
  \/ CallGetCommands
  \/ CallGetRowCol
  \/ CallGetRangesByName
  \/ CallFindMemberNames
  \/ CallGetStructNames
  \/ CallGetStructCompletions
  \/ CallGetFunctionCall

Spec == Init /\ [][Next]_vars

=============================================================================
